---- MODULE Spec2Model ----
(***************************************************************************)
(* PDF Auto-Renamer (src/streamlit_app.py).                                *)
(*                                                                         *)
(* One Streamlit session.  Every user event (files added to or removed     *)
(* from the uploader, a proposed name edited, a Download or Clear All      *)
(* click) runs main() once from top to bottom: a render pass.  A pass is   *)
(* sequential; it is modelled as the steps                                 *)
(*   loop   : one iteration of `for pdf_file in uploaded_files`            *)
(*   rows   : the `for original_name, file_info in ...` rendering loop     *)
(*   button : the `if st.button("Clear All")` statement                    *)
(*   rerun  : the run that st.experimental_rerun() schedules               *)
(* and no user event is taken while a pass is running (pc # "idle").       *)
(*                                                                         *)
(* PdfReader and the summarization pipeline are libraries: what they       *)
(* return for a file is chosen nondeterministically among the outcomes     *)
(* the code distinguishes.  Strings are sequences of characters.           *)
(***************************************************************************)
EXTENDS Integers, Sequences, FiniteSets, TLC

\* ------------------------------------------------------------------ bounds
\* Largest number of files the uploader widget holds at once.
MaxUploads == 2
\* Longest summary string the summarizer returns in TitleSpec.
MaxSummaryLen == 4

\* ------------------------------------------------------------- universes
\* Original file names and file contents the user can upload.
Names == {"a", "b"}
Bytes == {"pdf1", "pdf2"}
Files == [name : Names, bytes : Bytes]

\* Characters: a letter, two whitespace characters, the period.
Alphabet == {"T", " ", "\t", "."}
RECURSIVE StringsUpTo(_)
StringsUpTo(n) ==
    IF n = 0 THEN {<<>>}
    ELSE LET shorter == StringsUpTo(n - 1)
         IN  shorter \cup {Append(s, c) : s \in shorter, c \in Alphabet}

\* First-page texts PdfReader can extract: empty, whitespace-only, real text.
Texts == {<<>>, <<" ">>, <<"T", " ">>}
\* Summaries the summarizer returns in Spec: one with a title before the first
\* period, one that starts with a period (its title is empty).
Summaries == {<<" ", "T", ".", "T">>, <<".", "T">>}
\* Values the user types into a proposed-name field.
EditNames == {<<"e">>, <<>>}

\* ---------------------------------------------------------- Python values
\* Optional strings: None, or a str.
None == [some |-> FALSE, val |-> <<>>]
Some(s) == [some |-> TRUE, val |-> s]
\* Python truthiness of an optional string (`if text:`, `if title:`).
Truthy(o) == o.some /\ o.val # <<>>

\* \s of re and str.strip(): the whitespace characters.
IsSpace(c) == c \in {" ", "\t"}

RECURSIVE LStrip(_)
LStrip(s) ==
    IF s # <<>> /\ IsSpace(Head(s)) THEN LStrip(Tail(s)) ELSE s

RECURSIVE RStrip(_)
RStrip(s) ==
    IF s # <<>> /\ IsSpace(s[Len(s)]) THEN RStrip(SubSeq(s, 1, Len(s) - 1)) ELSE s

\* str.strip()
Strip(s) == RStrip(LStrip(s))

\* re.sub(r'\s', ' ', s): every whitespace character replaced on its own.
RECURSIVE CollapseWs_PerChar(_)
CollapseWs_PerChar(s) ==
    IF s = <<>> THEN <<>>
    ELSE <<IF IsSpace(Head(s)) THEN " " ELSE Head(s)>> \o CollapseWs_PerChar(Tail(s))

\* re.sub(r'\s+', ' ', s): every maximal whitespace run replaced by one space.
RECURSIVE CollapseWs(_)
CollapseWs(s) ==
    IF s = <<>> THEN <<>>
    ELSE IF IsSpace(Head(s)) THEN <<" ">> \o CollapseWs(LStrip(Tail(s)))
    ELSE <<Head(s)>> \o CollapseWs(Tail(s))

\* s.split('.')[0]: the text before the first period, all of s without one.
RECURSIVE SplitFirst(_)
SplitFirst(s) ==
    IF s = <<>> \/ Head(s) = "." THEN <<>>
    ELSE <<Head(s)>> \o SplitFirst(Tail(s))

\* text[:1024]
MaxInput == 1024
Excerpt(text) == SubSeq(text, 1, IF Len(text) < MaxInput THEN Len(text) ELSE MaxInput)

PdfSuffix == <<".", "p", "d", "f">>

\* ------------------------------------------------------ library outcomes
\* What PdfReader does with the bytes of one file.
PdfOutcomes ==
    {[kind |-> k, text |-> <<>>] : k \in {"open_error", "zero_pages", "page_error"}}
    \cup {[kind |-> "ok", text |-> t] : t \in Texts}

\* What summarizer(excerpt, ...)[0]['summary_text'] does: raises, or a summary.
SummarizerOutcomes(excerpt) ==
    {[raises |-> TRUE, summary |-> <<>>]}
    \cup {[raises |-> FALSE, summary |-> s] : s \in Summaries}

\* ------------------------------------------------- extract_text_from_pdf
\* The try block: whether it raised, the value it returned otherwise, and
\* whether the temporary file it created is still on disk when it is left.
ExtractBody(pdf) ==
    IF pdf.kind = "open_error"
    THEN \* PdfReader(tmp_file_path) raises: os.unlink is not reached
         [raised |-> TRUE, text |-> None, tmp_exists |-> TRUE]
    ELSE IF pdf.kind = "zero_pages"
    THEN \* unlinked, then len(reader.pages) == 0: return None
         [raised |-> FALSE, text |-> None, tmp_exists |-> FALSE]
    ELSE IF pdf.kind = "page_error"
    THEN \* unlinked, then reader.pages[0] or extract_text() raises
         [raised |-> TRUE, text |-> None, tmp_exists |-> FALSE]
    ELSE \* return text if text.strip() else None
         [raised |-> FALSE,
          text |-> IF Strip(pdf.text) # <<>> THEN Some(pdf.text) ELSE None,
          tmp_exists |-> FALSE]

\* extract_text_from_pdf without its except clause, and returning the page
\* text whatever text.strip() is.
ExtractTextFromPdf_Unguarded(pdf) ==
    [text |-> IF pdf.kind = "ok" THEN Some(pdf.text) ELSE None,
     tmp_exists |-> ExtractBody(pdf).tmp_exists,
     error |-> FALSE,
     raised |-> ExtractBody(pdf).raised]

\* The call: the value returned, the temporary file's state on return,
\* whether st.error was shown, whether an exception left the function.
ExtractTextFromPdf(pdf) ==
    LET body == ExtractBody(pdf)
    IN  IF body.raised
        THEN \* except Exception: st.error(...); return None
             [text |-> None, tmp_exists |-> body.tmp_exists,
              error |-> TRUE, raised |-> FALSE]
        ELSE [text |-> body.text, tmp_exists |-> body.tmp_exists,
              error |-> FALSE, raised |-> FALSE]

\* ---------------------------------------------------- get_title_using_ai
\* so: the outcome of the summarizer call on text[:1024].
GetTitleUsingAi(so) ==
    IF so.raises
    THEN [title |-> None, error |-> TRUE]
    ELSE [title |-> Some(SplitFirst(CollapseWs(Strip(so.summary)))),
          error |-> FALSE]

\* ------------------------------------------------------------- registry
\* st.session_state.processed_files: a dict keyed by original file name.
EmptyRegistry == [n \in {} |-> None]

\* An entry that proposes the original name again.
Entry_OriginalAsProposed(f, new_name) ==
    [content |-> f.bytes, proposed_name |-> <<f.name>>, original_name |-> f.name]

Entry(f, new_name) ==
    [content |-> f.bytes, proposed_name |-> new_name, original_name |-> f.name]

\* processed_files = {key: entry}: the dict is replaced, not updated.
Put_Replace(reg, key, entry) == [n \in {key} |-> entry]

\* processed_files[key] = entry
Put(reg, key, entry) ==
    [n \in DOMAIN reg \cup {key} |-> IF n = key THEN entry ELSE reg[n]]

\* A loop that processes every uploaded file, registered or not.
AlreadyProcessed_Never(reg, f) == FALSE

\* not (pdf_file.name not in st.session_state.processed_files)
AlreadyProcessed(reg, f) == f.name \in DOMAIN reg

\* Registration whenever get_title_using_ai returned a string, empty or not.
HasTitle_NotNone(title) == title.some

\* if title:
HasTitle(title) == Truthy(title)

\* The log of one iteration of the processing loop.
NoCall ==
    [kind |-> "none", name |-> "", bytes |-> "", pdf |-> "", page |-> <<>>,
     text |-> None,
     summarized |-> FALSE, summary |-> None, title |-> None,
     tmp_exists |-> FALSE, error |-> "none", registered |-> FALSE]

\* One iteration of `for pdf_file in uploaded_files` on file f, with pdf what
\* PdfReader does with its bytes and so what the summarizer does with its text.
\* Yields the registry, the iteration's log, the warning shown, if any, and
\* whether an exception left the iteration.
ProcessOne(reg, f, pdf, so) ==
    IF AlreadyProcessed(reg, f)
    THEN [reg |-> reg, warn |-> <<>>, raised |-> FALSE,
          call |-> [NoCall EXCEPT !.kind = "skipped", !.name = f.name,
                                  !.bytes = f.bytes]]
    ELSE
      LET ex == ExtractTextFromPdf(pdf)
          base == [NoCall EXCEPT !.kind = "processed", !.name = f.name,
                                 !.bytes = f.bytes, !.pdf = pdf.kind,
                                 !.page = pdf.text,
                                 !.text = ex.text, !.tmp_exists = ex.tmp_exists,
                                 !.error = IF ex.error THEN "extract" ELSE "none"]
      IN  IF ex.raised
          THEN [reg |-> reg, warn |-> <<>>, raised |-> TRUE, call |-> base]
          ELSE IF ~Truthy(ex.text)
          THEN [reg |-> reg, raised |-> FALSE,
                warn |-> <<[name |-> f.name, what |-> "text"]>>,
                call |-> base]
          ELSE
            LET ti == GetTitleUsingAi(so)
                withTitle ==
                    [base EXCEPT !.summarized = TRUE,
                                 !.summary = IF so.raises THEN None
                                             ELSE Some(so.summary),
                                 !.title = ti.title,
                                 !.error = IF ti.error THEN "title" ELSE "none"]
            IN  IF HasTitle(ti.title)
                THEN [reg |-> Put(reg, f.name, Entry(f, ti.title.val \o PdfSuffix)),
                      warn |-> <<>>, raised |-> FALSE,
                      call |-> [withTitle EXCEPT !.registered = TRUE]]
                ELSE [reg |-> reg, raised |-> FALSE,
                      warn |-> <<[name |-> f.name, what |-> "title"]>>,
                      call |-> withTitle]

\* --------------------------------------------------------- rendered rows
\* st.text_input(..., file_info['proposed_name'], key=...): the value typed
\* by the user when this pass was triggered by an edit of this row, the
\* value argument otherwise.
TextInput(original_name, ev, value) ==
    IF ev.kind = "edit" /\ ev.name = original_name THEN ev.value ELSE value

\* A write-back that drops the edited value.
EditedEntry_Dropped(file_info, new_name) == file_info

\* processed_files[original_name]['proposed_name'] = new_name
EditedEntry(file_info, new_name) ==
    [file_info EXCEPT !.proposed_name = new_name]

\* A download button that keeps the original file name.
Row_OriginalFileName(original_name, file_info, new_name) ==
    [original_name |-> original_name, proposed_name |-> new_name,
     file_name |-> <<original_name>>, data |-> file_info.content]

\* One rendered row: st.write(original_name), the text_input showing
\* new_name, and st.download_button(data=file_info['content'],
\* file_name=new_name).
Row(original_name, file_info, new_name) ==
    [original_name |-> original_name, proposed_name |-> new_name,
     file_name |-> new_name, data |-> file_info.content]

\* A Clear All that leaves the dict as it is.
ClearedRegistry_Kept(reg) == reg

\* st.session_state.processed_files = {}
ClearedRegistry(reg) == EmptyRegistry

\* ------------------------------------------------------------ load_model
\* What pipeline("summarization", ...) does when it is run: it builds the
\* model, or raises (no weights, no memory).
LoadOutcomes == {"built", "raises"}

\* load_model without @st.cache_resource: every call builds a model.
LoadModel_Uncached(cache, built, lo) ==
    IF lo = "raises"
    THEN [raised |-> TRUE, instance |-> 0, cache |-> cache, built |-> built]
    ELSE [raised |-> FALSE, instance |-> built + 1, cache |-> built + 1,
          built |-> built + 1]

\* One call of load_model() under @st.cache_resource, with cache the entry
\* of the process-wide cache, built the number of models built so far and lo
\* what pipeline(...) does if it is run.  Instances are numbered as built.
LoadModel(cache, built, lo) ==
    IF cache # 0
    THEN \* cache hit: the body is not run
         [raised |-> FALSE, instance |-> cache, cache |-> cache, built |-> built]
    ELSE IF lo = "raises"
    THEN \* the exception is not cached; it reaches main's except clause
         [raised |-> TRUE, instance |-> 0, cache |-> 0, built |-> built]
    ELSE [raised |-> FALSE, instance |-> built + 1, cache |-> built + 1,
          built |-> built + 1]

\* ----------------------------------------------------------------- state
VARIABLES
    uploaded,      \* uploaded_files: the files the uploader widget holds
    registry,      \* st.session_state.processed_files
    pc,            \* "idle", or the position of the running pass
    i,             \* index of the processing loop into uploaded
    event,         \* the user event that triggered the running (or last) pass
    call,          \* log of the last iteration of the running processing loop
    warnings,      \* st.warning messages of the running (or last) pass
    rows,          \* rows rendered by the running (or last) pass
    clear_button,  \* whether that pass rendered the Clear All button
    tmp_left,      \* temporary files created by that pass and still on disk
    fatal,         \* the banner of main's except clause is shown
    origin,        \* history: per entry, the bytes of the upload that created it
    model_cache,   \* st.cache_resource's entry for load_model: 0, or an instance
    constructions, \* history: how many times pipeline(...) built a model
    summarizer,    \* what load_model() returned to that pass, 0 when it raised
    instances,     \* history: every instance load_model() has returned
    failed,        \* history: names whose processing failed since the last clear
    row_tmp        \* temporary files created by that pass's rows, still on disk

vars == <<uploaded, registry, pc, i, event, call, warnings, rows,
          clear_button, tmp_left, fatal, origin, model_cache, constructions,
          summarizer, instances, failed, row_tmp>>

NoEvent == [kind |-> "none", name |-> "", value |-> <<>>]
Event(kind) == [NoEvent EXCEPT !.kind = kind]
NoRows == [n \in {} |-> None]

\* The process has started; no session has run main() yet.
Init ==
    /\ uploaded = <<>>
    /\ registry = EmptyRegistry
    /\ pc = "idle"
    /\ i = 1
    /\ event = NoEvent
    /\ call = NoCall
    /\ warnings = <<>>
    /\ rows = NoRows
    /\ clear_button = FALSE
    /\ tmp_left = 0
    /\ fatal = FALSE
    /\ origin = [n \in {} |-> ""]
    /\ model_cache = 0
    /\ constructions = 0
    /\ summarizer = 0
    /\ instances = {}
    /\ failed = {}
    /\ row_tmp = 0

\* main() runs from its top on event ev with files in the uploader: the page
\* is redrawn from nothing and load_model() is called.  When it raises, main's
\* except clause shows the banner and no uploader is drawn; otherwise
\* `if uploaded_files:` decides whether anything more runs.
RunMain(ev, files) ==
    /\ event' = ev
    /\ \E lo \in LoadOutcomes :
         LET lm == LoadModel(model_cache, constructions, lo)
         IN  /\ model_cache' = lm.cache
             /\ constructions' = lm.built
             /\ summarizer' = lm.instance
             /\ instances' = IF lm.raised THEN instances
                             ELSE instances \cup {lm.instance}
             /\ fatal' = lm.raised
             /\ uploaded' = IF lm.raised THEN <<>> ELSE files
             /\ pc' = IF ~lm.raised /\ files # <<>> THEN "loop" ELSE "idle"
    /\ i' = 1
    /\ call' = NoCall
    /\ warnings' = <<>>
    /\ rows' = NoRows
    /\ clear_button' = FALSE
    /\ tmp_left' = 0
    /\ row_tmp' = 0

\* A pass of the running session: its session state is kept.
StartPass(ev, files) ==
    /\ RunMain(ev, files)
    /\ UNCHANGED <<registry, origin, failed>>

\* ----------------------------------------------------------- user events
\* The user drops one or more files on the uploader.
RECURSIVE Batches(_)
Batches(n) ==
    IF n = 0 THEN {<<>>}
    ELSE LET shorter == Batches(n - 1)
         IN  shorter \cup {Append(s, f) : s \in shorter, f \in Files}

\* A browser opens the page, or reloads it: a new session, whose
\* session_state and widgets are empty, in the same process.
OpenSession ==
    /\ pc = "idle"
    /\ registry' = EmptyRegistry
    /\ origin' = [n \in {} |-> ""]
    /\ failed' = {}
    /\ RunMain(Event("open"), <<>>)

AddFiles ==
    /\ pc = "idle"
    /\ summarizer # 0
    /\ \E batch \in Batches(MaxUploads - Len(uploaded)) \ {<<>>} :
           StartPass(Event("add"), uploaded \o batch)

\* The user removes one file from the uploader.
RemoveFile ==
    /\ pc = "idle"
    /\ \E k \in 1..Len(uploaded) :
           StartPass(Event("remove"),
                     SubSeq(uploaded, 1, k - 1) \o SubSeq(uploaded, k + 1, Len(uploaded)))

\* The user changes the text of a rendered proposed-name field.
EditName ==
    /\ pc = "idle"
    /\ \E n \in DOMAIN rows : \E v \in EditNames :
        /\ v # rows[n].proposed_name
        /\ StartPass([kind |-> "edit", name |-> n, value |-> v], uploaded)

\* The user clicks the Download button of a rendered row.
ClickDownload ==
    /\ pc = "idle"
    /\ \E n \in DOMAIN rows :
           StartPass([kind |-> "download", name |-> n, value |-> rows[n].file_name],
                     uploaded)

\* The user clicks the rendered Clear All button.
ClickClear ==
    /\ pc = "idle"
    /\ clear_button
    /\ StartPass(Event("clear"), uploaded)

\* ------------------------------------------------------- the render pass
\* Where the pass goes after the processing loop:
\* `if st.session_state.processed_files:`.
AfterLoop(reg) == IF DOMAIN reg # {} THEN "rows" ELSE "idle"

\* The libraries run only when the iteration calls them: PdfReader on a file
\* that is not registered, the summarizer on a text that was extracted.
NotRun == [kind |-> "not_run", text |-> <<>>]
PdfRuns(reg, f) == IF AlreadyProcessed(reg, f) THEN {NotRun} ELSE PdfOutcomes
SummarizerRuns(pdf) ==
    IF Truthy(ExtractTextFromPdf(pdf).text)
    THEN SummarizerOutcomes(Excerpt(pdf.text))
    ELSE {[raises |-> TRUE, summary |-> <<>>]}

\* One iteration of `for pdf_file in uploaded_files`.
ProcessFile ==
    /\ pc = "loop"
    /\ i <= Len(uploaded)
    /\ \E pdf \in PdfRuns(registry, uploaded[i]) : \E so \in SummarizerRuns(pdf) :
         LET r == ProcessOne(registry, uploaded[i], pdf, so)
         IN  /\ registry' = r.reg
             /\ call' = r.call
             /\ origin' = IF r.call.registered
                          THEN Put(origin, uploaded[i].name, uploaded[i].bytes)
                          ELSE origin
             /\ warnings' = warnings \o r.warn
             /\ failed' = IF r.warn # <<>> THEN failed \cup {uploaded[i].name}
                          ELSE failed
             /\ tmp_left' = tmp_left + (IF r.call.tmp_exists THEN 1 ELSE 0)
             /\ IF r.raised
                THEN \* main's except clause: the banner, and the pass is over
                     /\ fatal' = TRUE
                     /\ pc' = "idle"
                     /\ i' = i
                ELSE /\ fatal' = fatal
                     /\ i' = i + 1
                     /\ pc' = IF i + 1 <= Len(uploaded) THEN "loop"
                              ELSE AfterLoop(r.reg)
    /\ UNCHANGED <<uploaded, event, rows, clear_button, model_cache,
                   constructions, summarizer, instances, row_tmp>>

\* The rendering loop over list(processed_files.items()): each row writes the
\* value of its text field back, creates a temporary file that nothing
\* deletes, and renders its download button.
RenderRows ==
    /\ pc = "rows"
    /\ LET new_name(n) == TextInput(n, event, registry[n].proposed_name)
       IN  /\ registry' = [n \in DOMAIN registry |->
                              EditedEntry(registry[n], new_name(n))]
           /\ rows' = [n \in DOMAIN registry |->
                          Row(n, registry[n], new_name(n))]
           /\ tmp_left' = tmp_left + Cardinality(DOMAIN registry)
           /\ row_tmp' = row_tmp + Cardinality(DOMAIN registry)
    /\ clear_button' = TRUE
    /\ call' = NoCall
    /\ pc' = "button"
    /\ UNCHANGED <<uploaded, i, event, warnings, fatal, origin,
                   model_cache, constructions, summarizer, instances, failed>>

\* if st.button("Clear All"): empty the dict and ask for a rerun.
ClearAllButton ==
    /\ pc = "button"
    /\ IF event.kind = "clear"
       THEN /\ registry' = ClearedRegistry(registry)
            /\ origin' = [n \in {} |-> ""]
            /\ failed' = {}
            /\ pc' = "rerun"
       ELSE /\ registry' = registry
            /\ origin' = origin
            /\ failed' = failed
            /\ pc' = "idle"
    /\ UNCHANGED <<uploaded, i, event, call, warnings, rows, clear_button,
                   tmp_left, fatal, model_cache, constructions, summarizer,
                   instances, row_tmp>>

\* st.experimental_rerun(): main() runs again, with no user event.
Rerun ==
    /\ pc = "rerun"
    /\ StartPass(Event("rerun"), uploaded)

Next ==
    \/ OpenSession
    \/ AddFiles
    \/ RemoveFile
    \/ EditName
    \/ ClickDownload
    \/ ClickClear
    \/ ProcessFile
    \/ RenderRows
    \/ ClearAllButton
    \/ Rerun

Spec == Init /\ [][Next]_vars

\* ------------------------------------------------- get_title_using_ai alone
\* The post-processing of get_title_using_ai applied to every summary string
\* of up to MaxSummaryLen characters.
TitleInit ==
    /\ \E s \in StringsUpTo(MaxSummaryLen) :
           call = [NoCall EXCEPT !.kind = "summary", !.summarized = TRUE,
                                 !.summary = Some(s)]
    /\ pc = "title"
    /\ uploaded = <<>>
    /\ registry = EmptyRegistry
    /\ i = 1
    /\ event = NoEvent
    /\ warnings = <<>>
    /\ rows = NoRows
    /\ clear_button = FALSE
    /\ tmp_left = 0
    /\ fatal = FALSE
    /\ origin = [n \in {} |-> ""]
    /\ model_cache = 0
    /\ constructions = 0
    /\ summarizer = 0
    /\ instances = {}
    /\ failed = {}
    /\ row_tmp = 0

TitleStep ==
    /\ pc = "title"
    /\ call' = [call EXCEPT
                  !.kind = "titled",
                  !.title = GetTitleUsingAi([raises |-> FALSE,
                                             summary |-> call.summary.val]).title]
    /\ pc' = "done"
    /\ UNCHANGED <<uploaded, registry, i, event, warnings, rows, clear_button,
                   tmp_left, fatal, origin, model_cache, constructions,
                   summarizer, instances, failed, row_tmp>>

TitleSpec == TitleInit /\ [][TitleStep]_vars

\* ================================================================ claims

\* C1. Upload idempotence: the loop iteration on an uploaded file whose name
\* is a registry key (same or different bytes) invokes neither extraction nor
\* title generation and leaves the registry as it is; no iteration changes an
\* entry that exists; and the content of every entry is the bytes of the
\* upload that created it.
C1_UploadIdempotence ==
    [][(pc = "loop" /\ i <= Len(uploaded))
        => /\ (uploaded[i].name \in DOMAIN registry
                 => /\ registry' = registry
                    /\ call'.kind = "skipped"
                    /\ call'.pdf = ""
                    /\ ~call'.summarized)
           /\ \A n \in DOMAIN registry :
                 n \in DOMAIN registry' /\ registry'[n] = registry[n]
           /\ \A n \in DOMAIN registry' : registry'[n].content = origin'[n]
      ]_vars

\* A file named as a registered entry, with other bytes, has just been skipped.
C1_Witness ==
    /\ call.kind = "skipped"
    /\ call.name \in DOMAIN registry
    /\ registry[call.name].content # call.bytes
    /\ registry[call.name].content = origin[call.name]

\* C2. Edit law: the write-back of the rendering loop sets the proposed_name of
\* the edited row's entry to the edited value, adds and removes no entry, and
\* leaves the content and original_name of every entry as they were.
C2_EditLaw ==
    [][pc = "rows"
        => /\ DOMAIN registry' = DOMAIN registry
           /\ \A n \in DOMAIN registry :
                /\ registry'[n].content = registry[n].content
                /\ registry'[n].original_name = registry[n].original_name
                /\ (event.kind = "edit" /\ event.name = n)
                      => registry'[n].proposed_name = event.value
      ]_vars

\* An edit has been written back while two entries are registered.
C2_Witness ==
    /\ pc = "button"
    /\ event.kind = "edit"
    /\ Cardinality(DOMAIN registry) = 2
    /\ registry[event.name].proposed_name = event.value
    /\ event.value = <<"e">>

\* C3. Clear law: when the Clear All branch has run, the registry has no entry.
C3_ClearLaw == pc = "rerun" => DOMAIN registry = {}

\* Clear All has run on a registry of two entries, one of them edited by the
\* user to "e" (the rows drawn before the button still show them).
C3_Witness ==
    /\ pc = "rerun"
    /\ DOMAIN registry = {}
    /\ Cardinality(DOMAIN rows) = 2
    /\ \E n \in DOMAIN rows : rows[n].proposed_name = <<"e">>

\* C4. Download fidelity: the download button of every rendered row of a
\* registered entry carries the bytes of the upload that created the entry,
\* under the entry's proposed_name as written back in that pass; and the
\* rendering loop draws a row for every entry.
C4_DownloadFidelity ==
    /\ \A n \in DOMAIN rows \cap DOMAIN registry :
          /\ rows[n].data = origin[n]
          /\ rows[n].file_name = registry[n].proposed_name
    /\ pc = "button" => DOMAIN rows = DOMAIN registry

\* A row edited in this pass is rendered; the uploader also holds a file of the
\* same name with other bytes.
C4_Witness ==
    /\ pc = "idle"
    /\ event.kind = "edit"
    /\ event.name \in DOMAIN rows
    /\ rows[event.name].file_name = event.value
    /\ \E k \in 1..Len(uploaded) :
          /\ uploaded[k].name = event.name
          /\ uploaded[k].bytes # rows[event.name].data

\* C5. Per-file failure isolation: an iteration in which extraction yields no
\* text or title generation yields no title creates no entry, emits one
\* warning naming the file, and the loop goes on to the next file; an
\* iteration in which both steps succeed registers the file.
C5_FailureIsolation ==
    [][(pc = "loop" /\ i <= Len(uploaded) /\ call'.kind = "processed")
        => /\ i' = i + 1
           /\ (i < Len(uploaded) => pc' = "loop")
           /\ (~Truthy(call'.text) \/ ~Truthy(call'.title))
                 => /\ registry' = registry
                    /\ Len(warnings') = Len(warnings) + 1
                    /\ warnings'[Len(warnings')].name = uploaded[i].name
           /\ (Truthy(call'.text) /\ Truthy(call'.title))
                 => /\ uploaded[i].name \in DOMAIN registry'
                    /\ registry'[uploaded[i].name].content = uploaded[i].bytes
                    /\ warnings' = warnings
      ]_vars

\* The first file of a batch failed with a warning and has no entry; the
\* second file of the batch has been registered.
C5_Witness ==
    /\ call.kind = "processed"
    /\ call.registered
    /\ i = 3
    /\ Len(warnings) = 1
    /\ warnings[1].name = uploaded[1].name
    /\ uploaded[1].name \notin DOMAIN registry
    /\ uploaded[2].name \in DOMAIN registry

\* C6. Extraction temp-file cleanup: whenever extract_text_from_pdf has
\* returned, on whatever path, the temporary file it created has been deleted.
C6_TempFileDeleted == call.kind = "processed" => ~call.tmp_exists

\* C7. extract_text_from_pdf returns None for a PDF with zero pages, for a
\* first page whose text is empty or whitespace-only, and for an error raised
\* while opening or reading the PDF; no exception leaves the function.
C7_NoTextIsNone ==
    (/\ call.kind = "processed"
     /\ \/ call.pdf \in {"open_error", "zero_pages", "page_error"}
        \/ \A k \in 1..Len(call.page) : IsSpace(call.page[k]))
    => /\ call.text = None
       /\ ~fatal

\* A first page of whitespace only has been read, and None returned.
C7_Witness ==
    /\ call.kind = "processed"
    /\ call.pdf = "ok"
    /\ call.page = <<" ">>
    /\ call.text = None
    /\ ~fatal

\* C8. The title get_title_using_ai returns for a summary string has no two
\* consecutive whitespace characters and no period.
C8_TitleShape ==
    call.kind = "titled"
    => /\ call.title.some
       /\ \A k \in 1..Len(call.title.val) : call.title.val[k] # "."
       /\ \A k \in 1..(Len(call.title.val) - 1) :
             ~(IsSpace(call.title.val[k]) /\ IsSpace(call.title.val[k + 1]))

\* A summary with a whitespace run and a period has been turned into a title.
C8_Witness ==
    /\ call.kind = "titled"
    /\ call.summary.val = <<"T", " ", "\t", ".">>
    /\ call.title.val = <<"T", " ">>

\* C9. Reset to Idle: the render pass that follows Clear All ends with an
\* empty registry and no row rendered.
C9_ResetToIdle ==
    (pc = "idle" /\ event.kind = "rerun")
    => (DOMAIN registry = {} /\ DOMAIN rows = {})

\* C10. Rendered surface: at the end of every render pass each entry of the
\* registry has a rendered row, whatever the uploader holds.
C10_RenderedSurface ==
    (pc = "idle" /\ ~fatal)
    => \A n \in DOMAIN registry :
          /\ n \in DOMAIN rows
          /\ rows[n].original_name = n
          /\ rows[n].proposed_name = registry[n].proposed_name

\* C11. Model loader: over all render passes and sessions of the process the
\* summarization model is built at most once, and every call of load_model
\* that returns gives that one instance.
C11_ModelLoadedOnce ==
    /\ constructions <= 1
    /\ Cardinality(instances) <= 1
    /\ summarizer # 0 => (summarizer = model_cache /\ summarizer \in instances)

\* A pass after the one that built the model has called load_model again (the
\* uploader it drew has since received files) and got the instance built then.
C11_Witness ==
    /\ event.kind = "add"
    /\ constructions = 1
    /\ summarizer = 1
    /\ instances = {1}

\* C12. Entry lifetime: within a session no step other than the Clear All
\* branch removes a key from the registry (a new session starts with a
\* registry of its own).
C12_EntryLifetime ==
    [][\/ pc = "button" /\ event.kind = "clear"
       \/ pc = "idle" /\ event'.kind = "open"
       \/ DOMAIN registry \subseteq DOMAIN registry'
      ]_vars

\* The user has removed every file from the uploader and the pass that
\* followed has kept the entries.
C12_Witness ==
    /\ pc = "idle"
    /\ event.kind = "remove"
    /\ uploaded = <<>>
    /\ Cardinality(DOMAIN registry) = 2

\* C13. No retries: an uploaded file whose name failed in an earlier pass of
\* the session, the registry not having been cleared since, is not extracted
\* again.
C13_NoRetries ==
    [][(/\ pc = "loop"
        /\ i <= Len(uploaded)
        /\ uploaded[i].name \in failed
        /\ \A k \in 1..Len(warnings) : warnings[k].name # uploaded[i].name)
        => call'.kind # "processed"
      ]_vars

\* C14. An entry is created only by a loop iteration in which extraction
\* returned a non-empty text and title generation a non-empty title t; the
\* new entry has proposed_name t + ".pdf", original_name equal to its key, and
\* content equal to the bytes of the uploaded file being processed.
C14_EntryCreation ==
    [][\A n \in DOMAIN registry' \ DOMAIN registry :
          /\ pc = "loop"
          /\ i <= Len(uploaded)
          /\ n = uploaded[i].name
          /\ call'.kind = "processed"
          /\ Truthy(call'.text)
          /\ Truthy(call'.title)
          /\ registry'[n] = [content |-> uploaded[i].bytes,
                             proposed_name |-> call'.title.val \o PdfSuffix,
                             original_name |-> n]
      ]_vars

\* The second file of a batch has just been registered under its title.
C14_Witness ==
    /\ call.registered
    /\ i = 3
    /\ call.title.val = <<"T">>
    /\ call.name \in DOMAIN registry
    /\ registry[call.name].proposed_name = <<"T", ".", "p", "d", "f">>
    /\ registry[call.name].content = uploaded[2].bytes
    /\ registry[call.name].original_name = call.name

\* C15. Clear All is available in Listing: every render pass that ends with a
\* non-empty registry has rendered the Clear All button.
C15_ClearAvailable ==
    (pc = "idle" /\ ~fatal /\ DOMAIN registry # {}) => clear_button

\* C16. No render pass leaves a temporary file behind: the files created
\* while rendering the rows are gone when the pass ends.
C16_NoRowTempFiles == pc = "idle" => row_tmp = 0

====
